---- MODULE Spec2Model ----
(***************************************************************************)
(* The serverless handler of creator-studio (api/generate.js and the       *)
(* later revision kept beside it): one HTTP invocation builds a prompt,    *)
(* calls one of two external providers (the Gemini SDK, the DALL-E REST    *)
(* endpoint) and shapes the reply into one HTTP response.                   *)
(*                                                                         *)
(* Three revisions of the handler are in the source:                       *)
(*   "gen1"  src/api/generate.js lines   1-193                             *)
(*   "gen2"  src/api/generate.js lines 196-355                             *)
(*   "part"  src/unnamed/part_000                                          *)
(* The deployed revision and the GEMINI_API_KEY of the process are fixed   *)
(* when the module is loaded.                                              *)
(*                                                                         *)
(* JavaScript strings are sequences of pieces (TLA+ strings); template     *)
(* literals and + are \o, String.prototype.includes is Includes.           *)
(***************************************************************************)
EXTENDS Integers, Sequences, FiniteSets, TLC

VARIABLES rev, geminiApiKey, maxInflight, pc, req, calls, reply, raised, sent

vars == <<rev, geminiApiKey, maxInflight, pc, req, calls, reply, raised, sent>>

\* Number of invocation slots the host keeps.
NumReq == 2

Reqs == 1..NumReq

Revisions == {"gen1", "gen2", "part"}

-----------------------------------------------------------------------------
(* JavaScript values *)

\* The value undefined (a missing field, a missing environment variable).
Undefined == "<undefined>"

\* A function object found on Object.prototype.
NativeFunction == "<native function>"

\* ToBoolean on the string-like values of the model.
Truthy(v) == v # Undefined /\ v # ""

\* ${v} inside a template literal.
Interpolate(v) ==
    IF v = Undefined THEN "undefined"
    ELSE IF v = NativeFunction THEN "function () { [native code] }"
    ELSE v

\* Property names every object literal inherits from Object.prototype.
ObjectPrototypeKeys == {"constructor", "toString", "valueOf", "hasOwnProperty"}

\* obj[key] on an object literal: own properties first, then the prototype.
PropertyGet(obj, key) ==
    LET k == Interpolate(key)
    IN  IF k \in DOMAIN obj THEN obj[k]
        ELSE IF k \in ObjectPrototypeKeys THEN NativeFunction
        ELSE Undefined

\* s.includes(t): t is a contiguous run of s.
Includes(s, t) ==
    \E i \in 0..(Len(s) - Len(t)) : SubSeq(s, i + 1, i + Len(t)) = t

-----------------------------------------------------------------------------
(* Prompt Builder *)

aspectRatioDescriptions ==
    ( "1:1"  :> "square (1:1)" ) @@
    ( "4:5"  :> "portrait (4:5)" ) @@
    ( "9:16" :> "tall portrait (9:16)" ) @@
    ( "16:9" :> "widescreen landscape (16:9)" )

sizeMapping ==
    ( "1:1"  :> "1024x1024" ) @@
    ( "9:16" :> "1024x1792" ) @@
    ( "16:9" :> "1792x1024" ) @@
    ( "4:5"  :> "1024x1024" )

DirectiveProduk ==
    " Additional direction: Focus ONLY on the raw product or main subject, ignoring all packaging."
DirectiveKeduanya ==
    " CRITICAL direction: Display the product packaging AND the raw product together in a realistic, artistic scene."
DirectiveKemasan ==
    " Additional direction: Focus ONLY on the product packaging. Do not show the raw product separately."

\* A switch without a default: an unrecognized focus appends nothing.
FocusDirective_NoDefault(aiFocus) ==
    CASE aiFocus = "produk"   -> <<DirectiveProduk>>
      [] aiFocus = "keduanya" -> <<DirectiveKeduanya>>
      [] aiFocus = "kemasan"  -> <<DirectiveKemasan>>
      [] OTHER                -> <<>>

\* switch (aiFocus) { case 'produk' ... case 'keduanya' ... default ... }
FocusDirective(aiFocus) ==
    CASE aiFocus = "produk"   -> <<DirectiveProduk>>
      [] aiFocus = "keduanya" -> <<DirectiveKeduanya>>
      [] OTHER                -> <<DirectiveKemasan>>

\* The poster branch appends the directive without looking at imageBlobs.
HasBlobs_Always(imageBlobs) == TRUE

\* imageBlobs && imageBlobs.length > 0
HasBlobs(imageBlobs) == imageBlobs.kind = "array" /\ Len(imageBlobs.items) > 0

CreativeBrief(p) ==
    IF p.mode = "Poster / Desain"
    THEN <<"Creative brief for a poster: \"", Interpolate(p.prompt),
           "\". Headline Text: \"", Interpolate(p.posterHeadline), "\".">>
         \o (IF HasBlobs(p.imageBlobs) THEN FocusDirective(p.aiFocus) ELSE <<>>)
    ELSE IF p.mode = "Mockup Packaging"
    THEN <<"Creative brief for a packaging mockup: Brand Name: \"",
           Interpolate(p.brandName), "\". Design a '", Interpolate(p.mockupType),
           "' packaging for this product based on the description: \"",
           Interpolate(p.brandDescription), "\".">>
    ELSE <<"Creative brief: \"", Interpolate(p.prompt), "\".">>
         \o FocusDirective(p.aiFocus)

FinalPrompt(p) ==
    <<"**[LAW 1: ASPECT RATIO] The final image MUST BE ",
      Interpolate(PropertyGet(aspectRatioDescriptions, p.aspectRatio)),
      ".**\n\n">> \o CreativeBrief(p)

\* imageBlobs ? imageBlobs.map(blob => ({inlineData: {...}})) : []
\* A null element makes the arrow function throw a TypeError.
ImagePartsThrows(imageBlobs) ==
    /\ imageBlobs.kind = "array"
    /\ \E i \in 1..Len(imageBlobs.items) : imageBlobs.items[i].kind = "null"

ImageParts(imageBlobs) ==
    IF imageBlobs.kind = "array"
    THEN [i \in 1..Len(imageBlobs.items) |->
            [kind |-> "inline", data |-> imageBlobs.items[i].data]]
    ELSE <<>>

\* size: sizeMapping[aspectRatio] || '1024x1024'
DalleSizeValue(aspectRatio) ==
    LET v == PropertyGet(sizeMapping, aspectRatio)
    IN  IF Truthy(v) THEN v ELSE "1024x1024"

\* The "size" member of JSON.stringify(payload): a function-valued property
\* is left out of the serialised body.
DalleRequestedSize(aspectRatio) ==
    LET v == DalleSizeValue(aspectRatio)
    IN  IF v = NativeFunction THEN Undefined ELSE v

-----------------------------------------------------------------------------
(* JSON.parse over a text of lexical pieces *)

\* Half-width, in pieces, of the source excerpt the engine quotes in a
\* SyntaxError message.
SnippetContext == 1

JsonWhitespace == {" ", "\n"}
JsonLiterals == {"true", "false", "null"}
JsonNumbers == {"1", "2"}
JsonStrings == {"\"brandName\"", "\"Kopi\"", "\"title\""}

JsonScalar(tok) == [t |-> "scalar", v |-> tok, items |-> <<>>]
JsonArray(items) == [t |-> "array", v |-> "", items |-> items]
JsonObject(members) == [t |-> "object", v |-> "", items |-> members]

ParseOk(val, next) == [ok |-> TRUE, val |-> val, next |-> next]
ParseFail(pos) == [ok |-> FALSE, val |-> JsonScalar("null"), next |-> pos]

RECURSIVE SkipWs(_, _)
SkipWs(text, i) ==
    IF i <= Len(text) /\ text[i] \in JsonWhitespace THEN SkipWs(text, i + 1) ELSE i

RECURSIVE ParseValue(_, _), ParseElements(_, _, _), ParseMembers(_, _, _)
ParseValue(text, i0) ==
    LET i == SkipWs(text, i0)
    IN  IF i > Len(text) THEN ParseFail(i)
        ELSE IF text[i] \in JsonLiterals \cup JsonNumbers \cup JsonStrings
             THEN ParseOk(JsonScalar(text[i]), i + 1)
        ELSE IF text[i] = "["
             THEN LET j == SkipWs(text, i + 1)
                  IN  IF j <= Len(text) /\ text[j] = "]"
                      THEN ParseOk(JsonArray(<<>>), j + 1)
                      ELSE ParseElements(text, i + 1, <<>>)
        ELSE IF text[i] = "{"
             THEN LET j == SkipWs(text, i + 1)
                  IN  IF j <= Len(text) /\ text[j] = "}"
                      THEN ParseOk(JsonObject(<<>>), j + 1)
                      ELSE ParseMembers(text, i + 1, <<>>)
        ELSE ParseFail(i)

ParseElements(text, i, acc) ==
    LET r == ParseValue(text, i)
        j == SkipWs(text, r.next)
    IN  IF ~r.ok THEN r
        ELSE IF j > Len(text) THEN ParseFail(j)
        ELSE IF text[j] = "," THEN ParseElements(text, j + 1, Append(acc, r.val))
        ELSE IF text[j] = "]" THEN ParseOk(JsonArray(Append(acc, r.val)), j + 1)
        ELSE ParseFail(j)

ParseMembers(text, i, acc) ==
    LET j == SkipWs(text, i)
        k == SkipWs(text, j + 1)
        r == ParseValue(text, k + 1)
        m == SkipWs(text, r.next)
    IN  IF j > Len(text) THEN ParseFail(j)
        ELSE IF text[j] \notin JsonStrings THEN ParseFail(j)
        ELSE IF k > Len(text) THEN ParseFail(k)
        ELSE IF text[k] # ":" THEN ParseFail(k)
        ELSE IF ~r.ok THEN r
        ELSE IF m > Len(text) THEN ParseFail(m)
        ELSE IF text[m] = ","
             THEN ParseMembers(text, m + 1, Append(acc, [key |-> text[j], val |-> r.val]))
        ELSE IF text[m] = "}"
             THEN ParseOk(JsonObject(Append(acc, [key |-> text[j], val |-> r.val])), m + 1)
        ELSE ParseFail(m)

\* JSON.parse(text): the value, or the position of the piece it stops at
\* (Len(text) + 1: the input ended too early).
JSONparse(text) ==
    LET r == ParseValue(text, 1)
        j == SkipWs(text, r.next)
    IN  IF ~r.ok THEN r
        ELSE IF j <= Len(text) THEN ParseFail(j)
        ELSE r

\* The two shapes of SyntaxError.message JavaScript engines give a failed
\* JSON.parse: position only, or with an excerpt of the source.
SyntaxErrorStyles == {"position", "excerpt"}

Max(a, b) == IF a >= b THEN a ELSE b
Min(a, b) == IF a <= b THEN a ELSE b

SourceExcerpt(text, pos) ==
    IF Len(text) <= 2 * SnippetContext + 1 THEN text
    ELSE LET from == Max(1, pos - SnippetContext)
             to   == Min(Len(text), pos + SnippetContext)
         IN  (IF from > 1 THEN <<"...">> ELSE <<>>)
             \o SubSeq(text, from, to)
             \o (IF to < Len(text) THEN <<"...">> ELSE <<>>)

SyntaxErrorMessage(text, pos, style) ==
    IF pos > Len(text) THEN <<"Unexpected end of JSON input">>
    ELSE IF style = "position"
    THEN <<"Unexpected token ", text[pos], " in JSON at position ", ToString(pos - 1)>>
    ELSE <<"Unexpected token '", text[pos], "', \"">> \o SourceExcerpt(text, pos)
         \o <<"\" is not valid JSON">>

-----------------------------------------------------------------------------
(* HTTP responses and provider calls *)

NoJson == JsonScalar("null")

\* res.status(200).end()
RespondEnd(status) == [status |-> status, kind |-> "end", text |-> <<>>, json |-> NoJson]

\* res.status(s).json({ error: message })
RespondError(status, message) ==
    [status |-> status, kind |-> "error", text |-> message, json |-> NoJson]

\* res.status(200).json({ imageUrl })
RespondImage(imageUrl) ==
    [status |-> 200, kind |-> "image", text |-> imageUrl, json |-> NoJson]

\* res.status(200).json(parsedValue)
RespondJson(value) == [status |-> 200, kind |-> "json", text |-> <<>>, json |-> value]

FallbackMessage(rv) ==
    IF rv = "part" THEN <<"An unknown internal server error occurred.">>
    ELSE <<"An internal server error occurred.">>

\* The catch block answers with the generic text and drops error.message.
CatchHandler_Generic(rv, message) == RespondError(500, FallbackMessage(rv))

\* catch (error) { res.status(500).json({ error: error.message || fallback }) }
CatchHandler(rv, message) ==
    RespondError(500, IF message = <<>> THEN FallbackMessage(rv) ELSE message)

ConfigErrorMessage(rv) ==
    IF rv = "part"
    THEN <<"Server configuration error: API Key is missing. Please check Vercel environment variables.">>
    ELSE <<"Server is not configured with a GEMINI_API_KEY.">>

MissingOpenAIKeyMessage == <<"OpenAI API Key is required for DALL-E.">>
MissingGeminiKeyMessage == <<"Gemini API Key is not configured on the server.">>
InvalidTypeMessage == <<"Invalid request type">>
MethodNotAllowedMessage == <<"Method Not Allowed">>

\* Messages of the TypeErrors the engine raises on a malformed body or reply.
TypeErrorMessage(what) == <<"TypeError: ", what>>

NoCall ==
    [provider |-> "none", op |-> "none", key |-> Undefined, prompt |-> <<>>,
     parts |-> <<>>, size |-> Undefined, request |-> Undefined]

\* model.generateContent(...) on the genAI client built from GEMINI_API_KEY.
GeminiCall(key, op, prompt, parts, request) ==
    [provider |-> "gemini", op |-> op, key |-> key, prompt |-> prompt,
     parts |-> parts, size |-> Undefined, request |-> request]

\* The caller's key kept in a module-level variable: a call made while
\* another DALL-E call is pending goes out with the key stored first.
DalleCall_StoredKey(openaiApiKey, prompt, aspectRatio) ==
    LET pending == {q \in Reqs : calls[q] # <<>> /\ calls[q][1].provider = "dalle"}
        stored  == IF pending = {} THEN openaiApiKey
                   ELSE calls[CHOOSE q \in pending : TRUE][1].key
    IN  [provider |-> "dalle", op |-> "image", key |-> stored, prompt |-> prompt,
         parts |-> <<>>, size |-> DalleRequestedSize(aspectRatio), request |-> "dall-e-3"]

\* fetch("https://api.openai.com/v1/images/generations", ...)
DalleCall(openaiApiKey, prompt, aspectRatio) ==
    [provider |-> "dalle", op |-> "image", key |-> openaiApiKey, prompt |-> prompt,
     parts |-> <<>>, size |-> DalleRequestedSize(aspectRatio), request |-> "dall-e-3"]

\* What the synchronous part of the handler ends in: a response, a provider
\* call it awaits, or an error thrown to the catch block.
Responds(resp) == [kind |-> "respond", resp |-> resp, call |-> NoCall, message |-> <<>>]
Awaits(call) == [kind |-> "await", resp |-> RespondEnd(0), call |-> call, message |-> <<>>]

\* throw new Error(message) (or an engine TypeError) inside the try block.
Raises(message) == [kind |-> "throw", resp |-> RespondEnd(0), call |-> NoCall, message |-> message]

-----------------------------------------------------------------------------
(* The handler up to its first await *)

FinalRenderPrompt ==
    <<"Re-render this image from scratch as a final professional photograph.">>

AnalysisPrompt(analysisType) ==
    IF analysisType = "branding"
    THEN <<"You are an extremely precise Optical Character Recognition (OCR) agent...">>
    ELSE <<"You are a visual product analyst.">>

\* The caller's key is never looked at.
MissingOpenAIKey_Skipped(p) == FALSE

\* if (!openaiApiKey) throw ...
MissingOpenAIKey(p) == ~Truthy(p.openaiApiKey)

\* The engine name is compared with a misspelt literal.
UsesDalle_Misspelt(p) == p.engine = "dall-e"

\* if (engine === 'dalle') ... else ...
UsesDalle(p) == p.engine = "dalle"

ImageEntry(rv, key, p) ==
    IF p.kind = "undefined"
    THEN Raises(TypeErrorMessage("Cannot destructure property 'mode' of 'payload'"))
    ELSE IF ImagePartsThrows(p.imageBlobs)
    THEN Raises(TypeErrorMessage("Cannot read properties of null (reading 'mimeType')"))
    ELSE IF UsesDalle(p)
    THEN IF MissingOpenAIKey(p)
         THEN Raises(MissingOpenAIKeyMessage)
         ELSE Awaits(DalleCall(p.openaiApiKey, FinalPrompt(p), p.aspectRatio))
    ELSE IF rv = "gen1" /\ ~Truthy(key)
         THEN Raises(MissingGeminiKeyMessage)
         ELSE Awaits(GeminiCall(key, "image", FinalPrompt(p),
                                ImageParts(p.imageBlobs), "image"))

FinalRenderEntry(rv, key, p) ==
    IF p.kind = "undefined"
    THEN Raises(TypeErrorMessage("Cannot destructure property 'base64Data' of 'payload'"))
    ELSE Awaits(GeminiCall(key, "final-render", FinalRenderPrompt,
                           <<[kind |-> "inline", data |-> p.base64Data]>>, "final-render"))

\* gen1 reads payload.payload and its generationConfig.responseSchema; the
\* later revisions pass payload.modelPayload through as it is.
IdeasEntry(rv, key, p) ==
    IF p.kind = "undefined"
    THEN Raises(TypeErrorMessage("Cannot destructure property of 'payload'"))
    ELSE IF rv = "gen1"
    THEN IF p.ideaPayload # "withConfig"
         THEN Raises(TypeErrorMessage("Cannot read properties of undefined (reading 'generationConfig')"))
         ELSE Awaits(GeminiCall(key, "ideas", <<>>, <<>>, p.ideaPayload))
    ELSE Awaits(GeminiCall(key, "ideas", <<>>, <<>>, p.modelPayload))

AnalyzeEntry(rv, key, p) ==
    IF p.kind = "undefined"
    THEN Raises(TypeErrorMessage("Cannot destructure property 'imageParts' of 'payload'"))
    ELSE IF p.imageParts.kind # "array"
    THEN Raises(TypeErrorMessage("imageParts is not iterable"))
    ELSE Awaits(GeminiCall(key, "analyze", AnalysisPrompt(p.analysisType),
                           p.imageParts.items, "json-schema"))

\* The unknown type is answered as a server error.
UnknownTypeResponse_AsServerError == RespondError(500, InvalidTypeMessage)

\* res.status(400).json({ error: 'Invalid request type' })
UnknownTypeResponse == RespondError(400, InvalidTypeMessage)

\* try { const { type, payload } = req.body; if (type === ...) ... }
TryBlock(rv, key, body) ==
    IF body.kind = "undefined"
    THEN Raises(TypeErrorMessage("Cannot destructure property 'type' of 'req.body'"))
    ELSE IF body.type = "image" THEN ImageEntry(rv, key, body.payload)
    ELSE IF body.type = "final-render" THEN FinalRenderEntry(rv, key, body.payload)
    ELSE IF body.type = "ideas" THEN IdeasEntry(rv, key, body.payload)
    ELSE IF body.type = "analyze" /\ rv # "gen1" THEN AnalyzeEntry(rv, key, body.payload)
    ELSE Responds(UnknownTypeResponse)

\* if (!geminiApiKey) return res.status(500).json(...)   (not in gen1)
ChecksKeyUpFront(rv) == rv \in {"gen2", "part"}

\* The handler without its two method tests: every method runs the POST path.
HandlerEntry_AnyMethod(rv, key, method, body) ==
    IF ChecksKeyUpFront(rv) /\ ~Truthy(key)
    THEN Responds(RespondError(500, ConfigErrorMessage(rv)))
    ELSE TryBlock(rv, key, body)

HandlerEntry(rv, key, method, body) ==
    IF method = "OPTIONS" THEN Responds(RespondEnd(200))
    ELSE IF method # "POST" THEN Responds(RespondError(405, MethodNotAllowedMessage))
    ELSE IF ChecksKeyUpFront(rv) /\ ~Truthy(key)
    THEN Responds(RespondError(500, ConfigErrorMessage(rv)))
    ELSE TryBlock(rv, key, body)

-----------------------------------------------------------------------------
(* Provider replies *)

NoReply ==
    [provider |-> "none", kind |-> "none", err |-> <<>>, candidates |-> "none",
     parts |-> <<>>, finishReason |-> Undefined, textThrows |-> FALSE,
     ok |-> FALSE, json |-> FALSE, error |-> Undefined, data |-> [kind |-> "undefined", items |-> <<>>]]

\* The promise of generateContent rejects (network, quota, bad key, bad request).
GeminiRejected(message) == [NoReply EXCEPT !.provider = "gemini", !.kind = "rejected", !.err = message]

\* result.response: candidates is "none" (no first candidate), "noParts"
\* (a first candidate without content.parts) or "parts".
GeminiResponse(candidates, parts, finishReason, textThrows) ==
    [NoReply EXCEPT !.provider = "gemini", !.kind = "response", !.candidates = candidates,
                    !.parts = parts, !.finishReason = finishReason, !.textThrows = textThrows]

\* fetch rejects (network failure).
DalleRejected(message) == [NoReply EXCEPT !.provider = "dalle", !.kind = "rejected", !.err = message]

\* The HTTP reply of the images endpoint: response.ok, whether the body is
\* JSON, its error.message and its data list.
DalleResponse(ok, json, error, data) ==
    [NoReply EXCEPT !.provider = "dalle", !.kind = "response", !.ok = ok, !.json = json,
                    !.error = error, !.data = data]

TextPart(text) == [kind |-> "text", text |-> text, data |-> Undefined]
InlinePart(data) == [kind |-> "inline", text |-> <<>>, data |-> data]

\* parts.find(p => p.inlineData)?.inlineData.data
RECURSIVE FirstInlineData(_)
FirstInlineData(parts) ==
    IF parts = <<>> THEN Undefined
    ELSE IF Head(parts).kind = "inline" THEN Head(parts).data
    ELSE FirstInlineData(Tail(parts))

\* response.text(): the text parts of the first candidate, joined.
RECURSIVE JoinText(_)
JoinText(parts) ==
    IF parts = <<>> THEN <<>>
    ELSE (IF Head(parts).kind = "text" THEN Head(parts).text ELSE <<>>) \o JoinText(Tail(parts))

ResponseText(rep) == IF rep.candidates = "parts" THEN JoinText(rep.parts) ELSE <<>>

SdkTextErrorMessage == <<"[GoogleGenerativeAI Error]: Candidate was blocked">>

\* A thrown error (message) or a returned value.
Throws(message) == [thrown |-> TRUE, message |-> message, value |-> <<>>]
Returns(value) == [thrown |-> FALSE, message |-> <<>>, value |-> value]

DataUri(base64) == <<"data:image/png;base64,", base64>>

\* The message without its second sentence.
NoImageMessage_Short == <<"AI did not return an image.">>

NoImageMessage ==
    <<"AI did not return an image.",
      " This might be due to safety filters or an incompatible prompt.">>

AiFailedMessage(text) == <<"AI failed to create image: \"">> \o text \o <<"\"">>

\* "part" reads response.candidates?.[0] and candidate?.content?.parts?.find;
\* gen1 and gen2 read response.candidates[0].content.parts.find.
SafeAccess(rv) == rv = "part"

\* generateWithGemini after its await.
GenerateWithGemini(rv, rep) ==
    IF rep.kind = "rejected" THEN Throws(rep.err)
    ELSE IF rep.candidates = "none" /\ ~SafeAccess(rv)
    THEN Throws(TypeErrorMessage("Cannot read properties of undefined (reading 'content')"))
    ELSE IF rep.candidates = "noParts" /\ ~SafeAccess(rv)
    THEN Throws(TypeErrorMessage("Cannot read properties of undefined (reading 'find')"))
    ELSE LET base64ImageData ==
                 IF rep.candidates = "parts" THEN FirstInlineData(rep.parts) ELSE Undefined
         IN  IF Truthy(base64ImageData) THEN Returns(DataUri(base64ImageData))
             ELSE IF rep.textThrows THEN Throws(SdkTextErrorMessage)
             ELSE IF ResponseText(rep) # <<>> THEN Throws(AiFailedMessage(ResponseText(rep)))
             ELSE Throws(NoImageMessage)

\* The final-render branch without its `if (finalRenderBase64)` test.
FinalRender_Unchecked(rv, rep) ==
    IF rep.kind = "rejected" THEN Throws(rep.err)
    ELSE Returns(DataUri(FirstInlineData(rep.parts)))

\* The final-render branch after its await.
FinalRender(rv, rep) ==
    IF rep.kind = "rejected" THEN Throws(rep.err)
    ELSE IF rep.candidates = "none"
    THEN Throws(TypeErrorMessage("Cannot read properties of undefined (reading 'content')"))
    ELSE IF rep.candidates = "noParts"
    THEN Throws(TypeErrorMessage("Cannot read properties of undefined (reading 'find')"))
    ELSE IF Truthy(FirstInlineData(rep.parts)) THEN Returns(DataUri(FirstInlineData(rep.parts)))
    ELSE Throws(<<"AI did not return a final render image.">>)

InvalidJsonMessage(text) == <<"AI returned invalid JSON. Raw response: ">> \o text

\* Only the ideas branch of "part" wraps JSON.parse in its own try/catch.
WrapsParseError(rv, op) == rv = "part" /\ op = "ideas"

\* The ideas and analyze branches after their await: response.text(), then
\* JSON.parse. The returned value is the parsed JSON.
StructuredExtraction(rv, op, rep, style) ==
    IF rep.kind = "rejected" THEN Throws(rep.err)
    ELSE IF rep.textThrows THEN Throws(SdkTextErrorMessage)
    ELSE LET text == ResponseText(rep)
             r    == JSONparse(text)
         IN  IF r.ok THEN [thrown |-> FALSE, message |-> <<>>, value |-> r.val]
             ELSE IF WrapsParseError(rv, op) THEN Throws(InvalidJsonMessage(text))
             ELSE Throws(SyntaxErrorMessage(text, r.next, style))

\* generateWithDalle without the response.ok test.
GenerateWithDalle_IgnoresStatus(rep) ==
    IF rep.kind = "rejected" THEN Throws(rep.err)
    ELSE IF ~rep.json THEN Throws(<<"invalid json response body">>)
    ELSE IF rep.data.kind # "array" THEN Throws(<<"DALL-E did not return an image.">>)
    ELSE IF rep.data.items = <<>>
    THEN Throws(TypeErrorMessage("Cannot read properties of undefined (reading 'url')"))
    ELSE IF Truthy(rep.data.items[1].url) THEN Returns(<<rep.data.items[1].url>>)
    ELSE Throws(<<"DALL-E did not return an image.">>)

\* generateWithDalle after its await.
GenerateWithDalle(rep) ==
    IF rep.kind = "rejected" THEN Throws(rep.err)
    ELSE IF ~rep.json THEN Throws(<<"invalid json response body">>)
    ELSE IF ~rep.ok
    THEN IF rep.error = Undefined
         THEN Throws(TypeErrorMessage("Cannot read properties of undefined (reading 'message')"))
         ELSE Throws(<<"OpenAI Error: ", rep.error>>)
    ELSE IF rep.data.kind # "array" THEN Throws(<<"DALL-E did not return an image.">>)
    ELSE IF rep.data.items = <<>>
    THEN Throws(TypeErrorMessage("Cannot read properties of undefined (reading 'url')"))
    ELSE IF Truthy(rep.data.items[1].url) THEN Returns(<<rep.data.items[1].url>>)
    ELSE Throws(<<"DALL-E did not return an image.">>)

\* The rest of the try block once the awaited call has settled: the value
\* it responds with, or the error it throws.
Outcome(rv, call, rep, style) ==
    IF call.provider = "dalle" THEN GenerateWithDalle(rep)
    ELSE IF call.op = "image" THEN GenerateWithGemini(rv, rep)
    ELSE IF call.op = "final-render" THEN FinalRender(rv, rep)
    ELSE StructuredExtraction(rv, call.op, rep, style)

\* res.status(200).json(...) of the branch that awaited the call.
SuccessResponse(call, value) ==
    IF call.op \in {"ideas", "analyze"} THEN RespondJson(value) ELSE RespondImage(value)

-----------------------------------------------------------------------------
(* Requests the host can deliver *)

Methods == {"POST", "OPTIONS", "GET"}

NoArray == [kind |-> "undefined", items |-> <<>>]
ArrayOf(items) == [kind |-> "array", items |-> items]

Blob == [kind |-> "object", mimeType |-> "image/png", data |-> "QUJD"]
NullBlob == [kind |-> "null", mimeType |-> Undefined, data |-> Undefined]

ImageBlobsValues == {NoArray, ArrayOf(<<>>), ArrayOf(<<Blob>>), ArrayOf(<<NullBlob>>)}

Modes == {"Poster / Desain", "Mockup Packaging", "Foto Produk", Undefined}
ValidAspectRatios == {"1:1", "4:5", "9:16", "16:9"}
AspectRatios == ValidAspectRatios \cup {"3:2", Undefined, "constructor"}
FocusValues == {"produk", "keduanya", "kemasan", "lainnya"}
Engines == {"dalle", "gemini"}
OpenAIKeys == {Undefined, "sk-caller"}

NoPayload ==
    [kind |-> "undefined", mode |-> Undefined, prompt |-> Undefined,
     posterHeadline |-> Undefined, mockupType |-> Undefined, brandName |-> Undefined,
     brandDescription |-> Undefined, aspectRatio |-> Undefined, aiFocus |-> Undefined,
     engine |-> Undefined, openaiApiKey |-> Undefined, imageBlobs |-> NoArray,
     base64Data |-> Undefined, modelPayload |-> Undefined, ideaPayload |-> Undefined,
     imageParts |-> NoArray, analysisType |-> Undefined]

EmptyPayload == [NoPayload EXCEPT !.kind = "object"]

ImagePayloads ==
    { [EmptyPayload EXCEPT !.mode = m, !.prompt = "a blue bottle on marble",
                           !.posterHeadline = "Segar Setiap Hari", !.mockupType = "Box",
                           !.brandName = "Kopi Kita", !.brandDescription = "kopi susu",
                           !.aspectRatio = a, !.aiFocus = f, !.engine = e,
                           !.openaiApiKey = k, !.imageBlobs = b] :
        m \in Modes, a \in AspectRatios, f \in FocusValues, e \in Engines,
        k \in OpenAIKeys, b \in ImageBlobsValues }

FinalRenderPayloads == { [EmptyPayload EXCEPT !.base64Data = "QUJD"] }

IdeasPayloads ==
    { [EmptyPayload EXCEPT !.modelPayload = "ideas-request"],
      [EmptyPayload EXCEPT !.ideaPayload = "withConfig"],
      [EmptyPayload EXCEPT !.ideaPayload = "noConfig"] }

AnalyzePayloads ==
    { [EmptyPayload EXCEPT !.imageParts = i, !.analysisType = t] :
        i \in {NoArray, ArrayOf(<<InlinePart("QUJD")>>)}, t \in {"branding", "content"} }

RecognizedTypes == {"image", "final-render", "ideas", "analyze"}

Bodies ==
    { [kind |-> "undefined", type |-> Undefined, payload |-> NoPayload] }
    \cup { [kind |-> "object", type |-> t, payload |-> NoPayload] :
             t \in RecognizedTypes \cup {"video", Undefined} }
    \cup { [kind |-> "object", type |-> "video", payload |-> EmptyPayload] }
    \cup { [kind |-> "object", type |-> "image", payload |-> p] : p \in ImagePayloads }
    \cup { [kind |-> "object", type |-> "final-render", payload |-> p] : p \in FinalRenderPayloads }
    \cup { [kind |-> "object", type |-> "ideas", payload |-> p] : p \in IdeasPayloads }
    \cup { [kind |-> "object", type |-> "analyze", payload |-> p] : p \in AnalyzePayloads }

NoRequest == [method |-> "none", body |-> [kind |-> "undefined", type |-> Undefined, payload |-> NoPayload]]

-----------------------------------------------------------------------------
(* Replies the providers can give *)

TextBrand == <<"{", "\"brandName\"", ":", " ", "\"Kopi\"", "}">>
TextList == <<"[", "1", ",", "true", "]">>
TextProse == <<"I cannot create that image.">>
TextTruncated == <<"{", "\"brandName\"", ":">>
TextChatty == <<"{", "\"brandName\"", ":", "null", "}", "\n", "Hope this helps!">>

ProviderTexts == {TextBrand, TextList, TextProse, TextTruncated, TextChatty}

PartsShapes ==
    { <<>>, <<InlinePart("QUJD")>>, <<InlinePart("")>>,
      <<TextPart(TextProse), InlinePart("QUJD")>>,
      <<InlinePart("UVJT"), InlinePart("QUJD")>> }
    \cup { <<TextPart(t)>> : t \in ProviderTexts }

\* finishReason, and whether response.text() throws on it (the SDK may
\* refuse to hand out the text of a blocked candidate).
FinishOutcomes == { <<"STOP", FALSE>>, <<"SAFETY", FALSE>>, <<"SAFETY", TRUE>> }

GeminiRejections == { GeminiRejected(<<"[GoogleGenerativeAI Error]: Error fetching from the API">>) }

GeminiReplies ==
    GeminiRejections
    \cup { GeminiResponse("none", <<>>, f[1], f[2]) : f \in FinishOutcomes }
    \cup { GeminiResponse("noParts", <<>>, f[1], f[2]) : f \in FinishOutcomes }
    \cup { GeminiResponse("parts", ps, f[1], f[2]) : ps \in PartsShapes, f \in FinishOutcomes }

\* A call made without a key or without a request object is refused.
GeminiRepliesTo(call) ==
    IF Truthy(call.key) /\ call.request # Undefined THEN GeminiReplies ELSE GeminiRejections

DalleDataValues ==
    { NoArray, ArrayOf(<<>>), ArrayOf(<<[url |-> "https://oaidalle.example/img.png"]>>),
      ArrayOf(<<[url |-> Undefined]>>),
      ArrayOf(<<[url |-> "https://oaidalle.example/a.png"], [url |-> "https://oaidalle.example/b.png"]>>) }

DalleReplies ==
    { DalleRejected(<<"request to https://api.openai.com/v1/images/generations failed">>) }
    \cup { DalleResponse(ok, FALSE, Undefined, NoArray) : ok \in BOOLEAN }
    \cup { DalleResponse(FALSE, TRUE, e, d) :
               e \in {Undefined, "Incorrect API key provided"},
               d \in {NoArray, ArrayOf(<<[url |-> "https://oaidalle.example/img.png"]>>)} }
    \cup { DalleResponse(TRUE, TRUE, Undefined, d) : d \in DalleDataValues }

-----------------------------------------------------------------------------
(* The state machine: invocations of the handler *)

TypeOK ==
    /\ rev \in Revisions
    /\ geminiApiKey \in {Undefined, "AIza-server"}
    /\ maxInflight \in 1..NumReq
    /\ pc \in [Reqs -> {"idle", "awaitGemini", "awaitDalle", "done"}]
    /\ \A r \in Reqs : Len(calls[r]) <= 1 /\ Len(sent[r]) <= 1 /\ Len(raised[r]) <= 1

InitCommon ==
    /\ rev \in Revisions
    /\ geminiApiKey \in {Undefined, "AIza-server"}
    /\ pc = [r \in Reqs |-> "idle"]
    /\ req = [r \in Reqs |-> NoRequest]
    /\ calls = [r \in Reqs |-> <<>>]
    /\ reply = [r \in Reqs |-> NoReply]
    /\ raised = [r \in Reqs |-> <<>>]
    /\ sent = [r \in Reqs |-> <<>>]

\* A host that runs one invocation of the function at a time.
Init == InitCommon /\ maxInflight = 1

InFlight == {r \in Reqs : pc[r] # "idle"}

\* The handler continues after its await with the provider's reply `rep`.
Settle(r, rep, style) ==
    LET out == Outcome(rev, calls[r][1], rep, style)
    IN  /\ reply' = [reply EXCEPT ![r] = rep]
        /\ IF out.thrown
           THEN /\ raised' = [raised EXCEPT ![r] = Append(@, out.message)]
                /\ sent' = [sent EXCEPT ![r] = Append(@, CatchHandler(rev, out.message))]
           ELSE /\ raised' = raised
                /\ sent' = [sent EXCEPT ![r] = Append(@, SuccessResponse(calls[r][1], out.value))]
        /\ pc' = [pc EXCEPT ![r] = "done"]
        /\ UNCHANGED <<rev, geminiApiKey, maxInflight, req, calls>>

\* module.exports(req, res) runs to its first await or to its response.
Start(r, method, body) ==
    LET e == HandlerEntry(rev, geminiApiKey, method, body)
    IN  /\ req' = [req EXCEPT ![r] = [method |-> method, body |-> body]]
        /\ calls' = [calls EXCEPT ![r] = IF e.kind = "await" THEN Append(@, e.call) ELSE @]
        /\ raised' = [raised EXCEPT ![r] = IF e.kind = "throw" THEN Append(@, e.message) ELSE @]
        /\ sent' = [sent EXCEPT ![r] =
                       IF e.kind = "respond" THEN Append(@, e.resp)
                       ELSE IF e.kind = "throw" THEN Append(@, CatchHandler(rev, e.message))
                       ELSE @]
        /\ pc' = [pc EXCEPT ![r] =
                       IF e.kind # "await" THEN "done"
                       ELSE IF e.call.provider = "dalle" THEN "awaitDalle"
                       ELSE "awaitGemini"]
        /\ UNCHANGED <<rev, geminiApiKey, maxInflight, reply>>

\* The host may start an invocation in slot r.
CanStart(r) ==
    /\ pc[r] = "idle"
    /\ \A q \in Reqs : q < r => pc[q] # "idle"
    /\ Cardinality(InFlight) < maxInflight

\* The host calls module.exports(req, res) with any method and body.
Invoke(r) ==
    /\ CanStart(r)
    /\ \E method \in Methods, body \in Bodies : Start(r, method, body)

\* await model.generateContent(...) settles and the handler runs to its end.
GeminiSettles(r) ==
    /\ pc[r] = "awaitGemini"
    /\ \E rep \in GeminiRepliesTo(calls[r][1]), style \in SyntaxErrorStyles :
         Settle(r, rep, style)

\* await fetch(...) settles and the handler runs to its end.
DalleSettles(r) ==
    /\ pc[r] = "awaitDalle"
    /\ \E rep \in DalleReplies : Settle(r, rep, "position")

\* The invocation is over; the host forgets it.
Close(r) ==
    /\ pc[r] = "done"
    /\ pc' = [pc EXCEPT ![r] = "idle"]
    /\ req' = [req EXCEPT ![r] = NoRequest]
    /\ calls' = [calls EXCEPT ![r] = <<>>]
    /\ reply' = [reply EXCEPT ![r] = NoReply]
    /\ raised' = [raised EXCEPT ![r] = <<>>]
    /\ sent' = [sent EXCEPT ![r] = <<>>]
    /\ UNCHANGED <<rev, geminiApiKey, maxInflight>>

Next == \E r \in Reqs : Invoke(r) \/ GeminiSettles(r) \/ DalleSettles(r) \/ Close(r)

Spec == Init /\ [][Next]_vars

-----------------------------------------------------------------------------
(* A host that runs invocations concurrently *)

\* Every slot may hold an invocation at the same time.
InitConc == InitCommon /\ maxInflight = NumReq

\* The requests and replies the interleavings are explored on: one image
\* request per engine, for two callers with their own OpenAI keys, an ideas
\* request and a preflight.
ConcImagePayload(engine, key) ==
    [EmptyPayload EXCEPT !.mode = "Foto Produk", !.prompt = "a blue bottle on marble",
                         !.aspectRatio = "1:1", !.aiFocus = "produk",
                         !.engine = engine, !.openaiApiKey = key]

ConcRequests ==
    { [method |-> "OPTIONS", body |-> NoRequest.body] }
    \cup { [method |-> "POST", body |-> [kind |-> "object", type |-> "image", payload |-> p]] :
             p \in { ConcImagePayload("dalle", "sk-caller"), ConcImagePayload("dalle", "sk-other"),
                     ConcImagePayload("gemini", Undefined) } }
    \cup { [method |-> "POST",
            body |-> [kind |-> "object", type |-> "ideas",
                      payload |-> [EmptyPayload EXCEPT !.modelPayload = "ideas-request",
                                                       !.ideaPayload = "withConfig"]]] }

ConcGeminiReplies ==
    GeminiRejections
    \cup { GeminiResponse("parts", <<InlinePart("QUJD")>>, "STOP", FALSE),
           GeminiResponse("parts", <<TextPart(TextBrand)>>, "STOP", FALSE) }

ConcDalleReplies ==
    { DalleResponse(TRUE, TRUE, Undefined, ArrayOf(<<[url |-> "https://oaidalle.example/img.png"]>>)),
      DalleResponse(FALSE, TRUE, "Incorrect API key provided", NoArray) }

InvokeConc(r) ==
    /\ CanStart(r)
    /\ \E q \in ConcRequests : Start(r, q.method, q.body)

GeminiSettlesConc(r) ==
    /\ pc[r] = "awaitGemini"
    /\ \E rep \in ConcGeminiReplies \cap GeminiRepliesTo(calls[r][1]) : Settle(r, rep, "position")

DalleSettlesConc(r) ==
    /\ pc[r] = "awaitDalle"
    /\ \E rep \in ConcDalleReplies : Settle(r, rep, "position")

NextConc ==
    \E r \in Reqs : InvokeConc(r) \/ GeminiSettlesConc(r) \/ DalleSettlesConc(r) \/ Close(r)

SpecConc == InitConc /\ [][NextConc]_vars

-----------------------------------------------------------------------------
(* Vocabulary of the properties *)

IsPost(r) == pc[r] # "idle" /\ req[r].method = "POST"
Finished(r) == pc[r] = "done"
HasBody(r) == req[r].body.kind = "object"
TypeOf(r) == req[r].body.type
PayloadOf(r) == req[r].body.payload

\* A POST whose body is an object with type 'image' and a payload object.
IsImageRequest(r) ==
    IsPost(r) /\ HasBody(r) /\ TypeOf(r) = "image" /\ PayloadOf(r).kind = "object"

\* The server-side credential check lets the request through.
ServerKeyCheckPassed == ChecksKeyUpFront(rev) => Truthy(geminiApiKey)

\* The one response of a finished invocation.
ResponseOf(r) == sent[r][1]

-----------------------------------------------------------------------------
(* C1 *)

\* C1: with GEMINI_API_KEY absent, every POST of a recognized type (image,
\* final-render, ideas, analyze) is answered 500 with an error message and
\* makes no provider call.
C1_NoDispatchWithoutServerKey ==
    \A r \in Reqs :
        (IsPost(r) /\ HasBody(r) /\ TypeOf(r) \in RecognizedTypes /\ ~Truthy(geminiApiKey))
        => /\ calls[r] = <<>>
           /\ Finished(r) => /\ Len(sent[r]) = 1
                             /\ ResponseOf(r).status = 500
                             /\ ResponseOf(r).kind = "error"

-----------------------------------------------------------------------------
(* C2 *)

\* The request gets as far as the engine branch: past the server-side key
\* check and past the mapping of imageBlobs.
ReachesEngineBranch(r) ==
    IsImageRequest(r) /\ ServerKeyCheckPassed /\ ~ImagePartsThrows(PayloadOf(r).imageBlobs)

DalleWithoutKey(r) ==
    IsImageRequest(r) /\ PayloadOf(r).engine = "dalle" /\ ~Truthy(PayloadOf(r).openaiApiKey)

\* C2 as stated: every image request with engine 'dalle' and no openaiApiKey
\* is answered 500 "OpenAI API Key is required for DALL-E." with no provider
\* call.
C2_Original ==
    \A r \in Reqs :
        (DalleWithoutKey(r) /\ Finished(r))
        => /\ calls[r] = <<>>
           /\ sent[r] = <<RespondError(500, <<"OpenAI API Key is required for DALL-E.">>)>>

\* C2 amended: an image request with engine 'dalle' and no openaiApiKey never
\* calls a provider and is answered 500; the message is "OpenAI API Key is
\* required for DALL-E." whenever the request reaches the engine branch
\* (the server-side key check passed and imageBlobs could be mapped).
C2_MissingOpenAIKey ==
    \A r \in Reqs :
        DalleWithoutKey(r)
        => /\ calls[r] = <<>>
           /\ Finished(r)
           /\ Len(sent[r]) = 1
           /\ ResponseOf(r).status = 500
           /\ ResponseOf(r).kind = "error"
           /\ ReachesEngineBranch(r)
                => ResponseOf(r).text = <<"OpenAI API Key is required for DALL-E.">>

C2_Witness ==
    \E r \in Reqs :
        /\ DalleWithoutKey(r) /\ ReachesEngineBranch(r) /\ Finished(r)
        /\ ResponseOf(r).text = <<"OpenAI API Key is required for DALL-E.">>
        /\ calls[r] = <<>>

-----------------------------------------------------------------------------
(* C3 *)

\* The credential checks of an image request: the server-side key (where
\* the revision checks it, up front or on the Gemini branch) and the
\* caller's key on the DALL-E branch.
PassesCredentialChecks(r) ==
    /\ ReachesEngineBranch(r)
    /\ PayloadOf(r).engine = "dalle" => Truthy(PayloadOf(r).openaiApiKey)
    /\ PayloadOf(r).engine # "dalle" => Truthy(geminiApiKey)

\* C3: an image request never makes more than one provider call, and one
\* that passes the credential checks has made exactly one from its start
\* to its end, failed or not: to DALL-E iff engine = 'dalle', else to Gemini.
C3_ExactlyOneProviderCall ==
    \A r \in Reqs :
        IsImageRequest(r)
        => /\ Len(calls[r]) <= 1
           /\ PassesCredentialChecks(r)
                => /\ Len(calls[r]) = 1
                   /\ calls[r][1].op = "image"
                   /\ (calls[r][1].provider = "dalle") <=> (PayloadOf(r).engine = "dalle")
                   /\ (calls[r][1].provider = "gemini") <=> (PayloadOf(r).engine # "dalle")

\* A provider call of an image request failed and the request is over.
C3_Witness ==
    \E r \in Reqs :
        /\ IsImageRequest(r) /\ PassesCredentialChecks(r) /\ Finished(r)
        /\ reply[r].kind = "rejected"
        /\ raised[r] # <<>>
        /\ Len(calls[r]) = 1

\* Once a call was made, the list of calls of that invocation never grows.
C3_NoSecondCall ==
    [][\A r \in Reqs : calls[r] # <<>> => (calls'[r] = calls[r] \/ calls'[r] = <<>>)]_vars

-----------------------------------------------------------------------------
(* C4 *)

UnrecognizedType(r) == IsPost(r) /\ HasBody(r) /\ TypeOf(r) \notin RecognizedTypes

\* C4 as stated: every POST whose type is not image, final-render, ideas or
\* analyze is answered 400 {error: 'Invalid request type'} with no provider
\* call.
C4_Original ==
    \A r \in Reqs :
        (UnrecognizedType(r) /\ Finished(r))
        => /\ calls[r] = <<>>
           /\ sent[r] = <<RespondError(400, <<"Invalid request type">>)>>

\* C4 amended: a POST whose type is not one of the four makes no provider
\* call and is answered at once; the answer is 400 {error: 'Invalid request
\* type'} when the server-side key check passed, and the 500 configuration
\* error otherwise.
C4_InvalidType ==
    \A r \in Reqs :
        UnrecognizedType(r)
        => /\ calls[r] = <<>>
           /\ Finished(r)
           /\ Len(sent[r]) = 1
           /\ ServerKeyCheckPassed
                => sent[r] = <<RespondError(400, <<"Invalid request type">>)>>
           /\ ~ServerKeyCheckPassed
                => ResponseOf(r).status = 500 /\ ResponseOf(r).kind = "error"

C4_Witness ==
    \E r \in Reqs :
        /\ UnrecognizedType(r) /\ ServerKeyCheckPassed /\ Finished(r)
        /\ TypeOf(r) = "video"
        /\ ResponseOf(r).status = 400

-----------------------------------------------------------------------------
(* C5 *)

\* C5: every error raised while a POST is handled ends in exactly one
\* response, status 500, whose body is {error: <that error's message>};
\* a POST that ended with a 200 raised no error; a finished POST has one
\* response.
C5_ErrorsSurfaced ==
    \A r \in Reqs :
        (IsPost(r) /\ Finished(r))
        => /\ Len(sent[r]) = 1
           /\ raised[r] # <<>>
                => /\ raised[r][1] # <<>>
                   /\ sent[r] = <<RespondError(500, raised[r][1])>>
           /\ ResponseOf(r).status = 200 => raised[r] = <<>>
           /\ (~Truthy(geminiApiKey) /\ ChecksKeyUpFront(rev))
                => ResponseOf(r).status = 500 /\ ResponseOf(r).kind = "error"
                   /\ ResponseOf(r).text # <<>>

\* An error raised after the await (a provider rejection) was surfaced.
C5_Witness ==
    \E r \in Reqs :
        /\ IsPost(r) /\ Finished(r)
        /\ calls[r] # <<>>
        /\ raised[r] # <<>>
        /\ ResponseOf(r).status = 500
        /\ ResponseOf(r).text = raised[r][1]

-----------------------------------------------------------------------------
(* C6 *)

CallOf(r) == calls[r][1]

\* A finished ideas or analyze request whose provider answered with a text.
ExtractionAnswered(r) ==
    /\ Finished(r) /\ calls[r] # <<>>
    /\ CallOf(r).op \in {"ideas", "analyze"}
    /\ reply[r].kind = "response" /\ ~reply[r].textThrows

\* C6: on the ideas and the analyze path, a provider text that is valid JSON
\* gives a 200 whose body is that JSON value, and a text that is not gives
\* the error "AI returned invalid JSON. Raw response: <the text>".
C6_StructuredExtraction ==
    \A r \in Reqs :
        ExtractionAnswered(r)
        => LET text == ResponseText(reply[r])
               parsed == JSONparse(text)
           IN  /\ parsed.ok => sent[r] = <<RespondJson(parsed.val)>>
               /\ ~parsed.ok
                    => /\ ResponseOf(r).status = 500
                       /\ ResponseOf(r).kind = "error"
                       /\ ResponseOf(r).text[1] = "AI returned invalid JSON. Raw response: "
                       /\ Includes(ResponseOf(r).text, text)

-----------------------------------------------------------------------------
(* C7 *)

\* The inline image data generateWithGemini finds in a reply, if any.
InlineImageOf(rep) ==
    IF rep.candidates = "parts" THEN FirstInlineData(rep.parts) ELSE Undefined

\* A finished image request on the Gemini path whose provider answered.
GeminiImageAnswered(r) ==
    /\ Finished(r) /\ calls[r] # <<>>
    /\ CallOf(r).provider = "gemini" /\ CallOf(r).op = "image"
    /\ reply[r].kind = "response"

\* The response holds no inline image, and response.text() returns "".
NoImageNoText(r) ==
    /\ GeminiImageAnswered(r)
    /\ ~Truthy(InlineImageOf(reply[r]))
    /\ ~reply[r].textThrows
    /\ ResponseText(reply[r]) = <<>>

\* C7 as stated: with no inline image and no text the error message is
\* exactly "AI did not return an image.".
C7_Original ==
    \A r \in Reqs :
        NoImageNoText(r) => raised[r] = << <<"AI did not return an image.">> >>

\* C7 amended: with no inline image and no text the error message is exactly
\* "AI did not return an image. This might be due to safety filters or an
\* incompatible prompt." in part_000, and in the generate.js revisions when
\* the response has a first candidate with parts; without them the
\* generate.js revisions raise the engine's TypeError.
C7_NoImageMessage ==
    \A r \in Reqs :
        NoImageNoText(r)
        => /\ Len(raised[r]) = 1
           /\ (rev = "part" \/ reply[r].candidates = "parts")
                => raised[r][1] =
                     <<"AI did not return an image.",
                       " This might be due to safety filters or an incompatible prompt.">>
           /\ (rev # "part" /\ reply[r].candidates # "parts")
                => raised[r][1][1] = "TypeError: "

C7_Witness ==
    \E r \in Reqs :
        /\ NoImageNoText(r)
        /\ reply[r].candidates = "parts"
        /\ raised[r][1][1] = "AI did not return an image."
        /\ Len(raised[r][1]) = 2

-----------------------------------------------------------------------------
(* C8 *)

\* Pieces of a message that name the safety filter or the stop reason.
SafetyMentions ==
    {" This might be due to safety filters or an incompatible prompt.", "SAFETY",
     "safety filter"}

MentionsSafetyFilter(message) ==
    \E i \in 1..Len(message) : message[i] \in SafetyMentions

\* C8: a Gemini reply with stop reason SAFETY, some text and no inline image
\* gives an error whose message holds both the text and a mention of the
\* safety filter.
C8_SafetyFilterFlagged ==
    \A r \in Reqs :
        (/\ GeminiImageAnswered(r)
         /\ reply[r].finishReason = "SAFETY"
         /\ ~Truthy(InlineImageOf(reply[r]))
         /\ ResponseText(reply[r]) # <<>>)
        => /\ Len(raised[r]) = 1
           /\ Includes(raised[r][1], ResponseText(reply[r]))
           /\ MentionsSafetyFilter(raised[r][1])

-----------------------------------------------------------------------------
(* C9 *)

\* The label the Prompt Builder put into the prompt of a call.
LabelIn(call) == call.prompt[2]

\* C9: for a valid aspectRatio the label in the prompt and the DALL-E size
\* are defined and non-empty; for any other value the label is the missing
\* (undefined) one and the size is the default "1024x1024"; either way the
\* request that passes the credential checks is dispatched.
C9_AspectRatioLookups ==
    \A r \in Reqs :
        (IsImageRequest(r) /\ PassesCredentialChecks(r))
        => /\ Len(calls[r]) = 1
           /\ PayloadOf(r).aspectRatio \in ValidAspectRatios
                => /\ LabelIn(CallOf(r)) \notin {"", "undefined"}
                   /\ CallOf(r).provider = "dalle" => Truthy(CallOf(r).size)
           /\ PayloadOf(r).aspectRatio \notin ValidAspectRatios
                => /\ LabelIn(CallOf(r)) = "undefined"
                   /\ CallOf(r).provider = "dalle" => CallOf(r).size = "1024x1024"

-----------------------------------------------------------------------------
(* C10 *)

\* The size table as the claim states it.
StatedSize(aspectRatio) ==
    CASE aspectRatio = "1:1"  -> "1024x1024"
      [] aspectRatio = "9:16" -> "1024x1792"
      [] aspectRatio = "16:9" -> "1792x1024"
      [] aspectRatio = "4:5"  -> "1024x1024"
      [] OTHER                -> "1024x1024"

\* C10: the size requested from DALL-E is 1024x1024 for 1:1, 1024x1792 for
\* 9:16, 1792x1024 for 16:9, 1024x1024 for 4:5 and 1024x1024 for every other
\* aspectRatio value, a missing one included.
C10_DalleSize ==
    \A r \in Reqs :
        (calls[r] # <<>> /\ CallOf(r).provider = "dalle")
        => CallOf(r).size = StatedSize(PayloadOf(r).aspectRatio)

-----------------------------------------------------------------------------
(* C11 *)

\* An image request whose prompt was built and handed to a provider.
ImageCallMade(r) == IsImageRequest(r) /\ calls[r] # <<>> /\ CallOf(r).op = "image"

\* The three focus-directive variants as the source spells them.
DirectiveVariants ==
    {" Additional direction: Focus ONLY on the raw product or main subject, ignoring all packaging.",
     " CRITICAL direction: Display the product packaging AND the raw product together in a realistic, artistic scene.",
     " Additional direction: Focus ONLY on the product packaging. Do not show the raw product separately."}

\* Positions of the prompt that hold a focus directive.
DirectivesIn(prompt) == {i \in 1..Len(prompt) : prompt[i] \in DirectiveVariants}

\* The variant the focus value selects.
SelectedVariant(aiFocus) ==
    IF aiFocus = "produk"
    THEN " Additional direction: Focus ONLY on the raw product or main subject, ignoring all packaging."
    ELSE IF aiFocus = "keduanya"
    THEN " CRITICAL direction: Display the product packaging AND the raw product together in a realistic, artistic scene."
    ELSE " Additional direction: Focus ONLY on the product packaging. Do not show the raw product separately."

\* At least one reference image came with the request.
HasReferenceImage(p) == p.imageBlobs.kind = "array" /\ Len(p.imageBlobs.items) >= 1

\* The modes and inputs in which the source appends a focus directive.
DirectiveApplies(p) ==
    IF p.mode = "Poster / Desain" THEN HasReferenceImage(p)
    ELSE p.mode # "Mockup Packaging"

\* An unrecognized focus gives the prompt that 'kemasan' gives.
SameAsKemasan(r) ==
    PayloadOf(r).aiFocus \notin {"produk", "keduanya", "kemasan"}
    => CallOf(r).prompt = FinalPrompt([PayloadOf(r) EXCEPT !.aiFocus = "kemasan"])

\* C11 as stated: for every focus value the prompt holds exactly one of the
\* three directive variants, and an unrecognized focus gives the prompt of
\* 'kemasan'.
C11_Original ==
    \A r \in Reqs :
        ImageCallMade(r)
        => /\ Cardinality(DirectivesIn(CallOf(r).prompt)) = 1
           /\ SameAsKemasan(r)

\* C11 amended: wherever a focus directive applies (product-photo mode, and
\* poster mode with a reference image) the prompt ends with exactly one of
\* the three variants, the one the focus value selects, an unrecognized
\* value selecting the packaging one; in mockup mode and in poster mode
\* without reference images no directive is appended; in every mode an
\* unrecognized focus gives the prompt of 'kemasan'.
C11_FocusDirective ==
    \A r \in Reqs :
        ImageCallMade(r)
        => LET prompt == CallOf(r).prompt
           IN  /\ DirectiveApplies(PayloadOf(r))
                    => /\ DirectivesIn(prompt) = {Len(prompt)}
                       /\ prompt[Len(prompt)] = SelectedVariant(PayloadOf(r).aiFocus)
               /\ ~DirectiveApplies(PayloadOf(r)) => DirectivesIn(prompt) = {}
               /\ SameAsKemasan(r)

\* An unrecognized focus value in product-photo mode got the packaging
\* directive.
C11_Witness ==
    \E r \in Reqs :
        /\ ImageCallMade(r)
        /\ PayloadOf(r).mode = "Foto Produk"
        /\ PayloadOf(r).aiFocus = "lainnya"
        /\ CallOf(r).prompt[Len(CallOf(r).prompt)] =
             " Additional direction: Focus ONLY on the product packaging. Do not show the raw product separately."

-----------------------------------------------------------------------------
(* C12 *)

\* The case the claim spells out: product photo, 1:1, focus 'produk', no
\* reference images.
ProductPhotoSquare(r) ==
    /\ ImageCallMade(r)
    /\ PayloadOf(r).mode = "Foto Produk"
    /\ PayloadOf(r).aspectRatio = "1:1"
    /\ PayloadOf(r).aiFocus = "produk"
    /\ ~HasReferenceImage(PayloadOf(r))

\* C12: in Poster mode a focus directive is appended iff at least one
\* reference image is present; in Mockup mode none is appended; in every
\* other mode exactly one is appended, with or without reference images.
\* Product photo, 1:1, 'produk', no images: the prompt holds "square (1:1)"
\* and the directive "Focus ONLY on the raw product ...".
C12_DirectiveByMode ==
    \A r \in Reqs :
        ImageCallMade(r)
        => LET n == Cardinality(DirectivesIn(CallOf(r).prompt))
               mode == PayloadOf(r).mode
           IN  /\ mode = "Poster / Desain"
                    => /\ n <= 1
                       /\ n = 1 <=> HasReferenceImage(PayloadOf(r))
               /\ mode = "Mockup Packaging" => n = 0
               /\ mode \notin {"Poster / Desain", "Mockup Packaging"} => n = 1
               /\ ProductPhotoSquare(r)
                    => /\ CallOf(r).prompt[2] = "square (1:1)"
                       /\ \E i \in 1..Len(CallOf(r).prompt) : CallOf(r).prompt[i] =
                            " Additional direction: Focus ONLY on the raw product or main subject, ignoring all packaging."

\* A poster request without reference images was dispatched with no
\* directive in its prompt.
C12_Witness ==
    \E r \in Reqs :
        /\ ImageCallMade(r)
        /\ PayloadOf(r).mode = "Poster / Desain"
        /\ ~HasReferenceImage(PayloadOf(r))
        /\ DirectivesIn(CallOf(r).prompt) = {}

\* The product-photo case of the claim was dispatched.
C12_WitnessProductPhoto == \E r \in Reqs : ProductPhotoSquare(r)

-----------------------------------------------------------------------------
(* C13 *)

\* A finished image request on the DALL-E path whose fetch resolved.
DalleAnswered(r) ==
    /\ Finished(r) /\ calls[r] # <<>>
    /\ CallOf(r).provider = "dalle"
    /\ reply[r].kind = "response"

\* The reply has a success status and a JSON body whose data list starts
\* with an entry that has a url.
CarriesUrl(rep) ==
    /\ rep.ok /\ rep.json
    /\ rep.data.kind = "array" /\ Len(rep.data.items) >= 1
    /\ rep.data.items[1].url # Undefined

\* C13: on the DALL-E path a non-success status, or a success status
\* without a URL (data missing or empty included), ends in a 500 error
\* response and never a 200; the request succeeds, with the first returned
\* URL, only when that URL is present.
C13_DalleResult ==
    \A r \in Reqs :
        DalleAnswered(r)
        => IF CarriesUrl(reply[r])
           THEN ResponseOf(r) = [status |-> 200, kind |-> "image",
                                 text |-> <<reply[r].data.items[1].url>>, json |-> NoJson]
           ELSE /\ ResponseOf(r).status = 500
                /\ ResponseOf(r).kind = "error"
                /\ raised[r] # <<>>

\* A success status with an empty data list ended in a 500.
C13_Witness ==
    \E r \in Reqs :
        /\ DalleAnswered(r)
        /\ reply[r].ok /\ reply[r].json
        /\ reply[r].data = [kind |-> "array", items |-> <<>>]
        /\ ResponseOf(r).status = 500

\* A non-success status with a URL in its body ended in a 500.
C13_WitnessNonSuccess ==
    \E r \in Reqs :
        /\ DalleAnswered(r)
        /\ ~reply[r].ok /\ reply[r].json /\ reply[r].data.kind = "array"
        /\ ResponseOf(r).status = 500

-----------------------------------------------------------------------------
(* C14 *)

\* The error messages generateWithGemini words itself open with one of these.
DescriptiveOpenings == {"AI did not return an image.", "AI failed to create image: \""}

\* The text parts of the first candidate, as the provider sent them.
ReturnedText(rep) == IF rep.candidates = "parts" THEN JoinText(rep.parts) ELSE <<>>

\* C14: on the Gemini path of an image request the result is the first
\* inline-image payload of the first candidate as a "data:image/png;base64,"
\* URI; with no inline image (no candidates and a candidate without parts
\* included) the request fails with a descriptive error whose message
\* includes any text the provider returned.
C14_GeminiResult ==
    \A r \in Reqs :
        GeminiImageAnswered(r)
        => IF Truthy(InlineImageOf(reply[r]))
           THEN ResponseOf(r) = [status |-> 200, kind |-> "image",
                                 text |-> <<"data:image/png;base64,", InlineImageOf(reply[r])>>,
                                 json |-> NoJson]
           ELSE /\ ResponseOf(r).status = 500
                /\ ResponseOf(r).kind = "error"
                /\ Len(raised[r]) = 1
                /\ raised[r][1][1] \in DescriptiveOpenings
                /\ Includes(raised[r][1], ReturnedText(reply[r]))

\* The same statement for the cases the code handles: part_000, or a first
\* candidate with parts, and a response whose text() does not throw.
C14_HandledCases ==
    \A r \in Reqs :
        (/\ GeminiImageAnswered(r)
         /\ ~reply[r].textThrows
         /\ (rev = "part" \/ reply[r].candidates = "parts"))
        => IF Truthy(InlineImageOf(reply[r]))
           THEN ResponseOf(r).status = 200
           ELSE /\ ResponseOf(r).status = 500
                /\ raised[r][1][1] \in DescriptiveOpenings
                /\ Includes(raised[r][1], ReturnedText(reply[r]))

\* Whatever the reply, a Gemini image request without an inline image ends
\* in a 500 error response.
C14_AlwaysFails ==
    \A r \in Reqs :
        (GeminiImageAnswered(r) /\ ~Truthy(InlineImageOf(reply[r])))
        => ResponseOf(r).status = 500 /\ ResponseOf(r).kind = "error"

-----------------------------------------------------------------------------
(* C15 *)

\* A finished POST of type 'final-render'.
FinalRenderDone(r) ==
    IsPost(r) /\ Finished(r) /\ HasBody(r) /\ TypeOf(r) = "final-render"

\* The request gets as far as the final-render branch: the server key check
\* lets it through and there is a payload to take base64Data from.
ReachesFinalRender(r) == ServerKeyCheckPassed /\ PayloadOf(r).kind = "object"

\* Exactly one call, to Gemini, with the fixed prompt and the supplied image
\* as its one inline part.
OneFinalRenderCall(r) ==
    /\ Len(calls[r]) = 1
    /\ CallOf(r).provider = "gemini"
    /\ CallOf(r).prompt =
         <<"Re-render this image from scratch as a final professional photograph.">>
    /\ CallOf(r).parts = <<[kind |-> "inline", data |-> PayloadOf(r).base64Data]>>

\* 200 with the returned inline image as a data URI if there is one, an
\* error response otherwise.
FinalRenderAnswer(r) ==
    IF reply[r].kind = "response" /\ Truthy(InlineImageOf(reply[r]))
    THEN ResponseOf(r) = [status |-> 200, kind |-> "image",
                          text |-> <<"data:image/png;base64,", InlineImageOf(reply[r])>>,
                          json |-> NoJson]
    ELSE /\ ResponseOf(r).status = 500
         /\ ResponseOf(r).kind = "error"

\* C15 as stated: every final-render request makes exactly one call to
\* Gemini with the supplied inline image and the fixed instructions, and
\* answers 200 with the returned image or else an error response.
C15_Original ==
    \A r \in Reqs : FinalRenderDone(r) => OneFinalRenderCall(r) /\ FinalRenderAnswer(r)

\* C15 amended: a final-render request that reaches its branch (the server
\* key check passed, the body has a payload) makes exactly one call to
\* Gemini with the supplied inline image and the fixed instructions; one
\* that does not makes no call. Either way it answers 200 with the returned
\* inline image as a data URI if the provider returned one, and an error
\* response otherwise, never a 200 without an image.
C15_FinalRender ==
    \A r \in Reqs :
        FinalRenderDone(r)
        => /\ IF ReachesFinalRender(r) THEN OneFinalRenderCall(r) ELSE calls[r] = <<>>
           /\ FinalRenderAnswer(r)

\* A final-render whose reply held text only was answered 500.
C15_Witness ==
    \E r \in Reqs :
        /\ FinalRenderDone(r)
        /\ Len(calls[r]) = 1
        /\ reply[r].kind = "response" /\ reply[r].candidates = "parts"
        /\ InlineImageOf(reply[r]) = Undefined
        /\ ResponseOf(r).status = 500

\* A final-render whose reply held an inline image was answered 200.
C15_WitnessImage ==
    \E r \in Reqs :
        /\ FinalRenderDone(r)
        /\ Truthy(InlineImageOf(reply[r]))
        /\ ResponseOf(r).status = 200

-----------------------------------------------------------------------------
(* C17 *)

\* The invocation is suspended at its provider call.
Suspended(r) == pc[r] \in {"awaitGemini", "awaitDalle"}

\* C17: every invocation sends exactly one response before it finishes, and
\* none while it is suspended: 200 for OPTIONS and 405 for any other
\* non-POST method, both whatever the server key and without a provider
\* call, and for POST one of 200, 400 and 500.
C17_ExactlyOneResponse ==
    \A r \in Reqs :
        /\ Suspended(r) => sent[r] = <<>>
        /\ Finished(r)
             => /\ Len(sent[r]) = 1
                /\ req[r].method = "OPTIONS"
                     => ResponseOf(r).status = 200 /\ calls[r] = <<>>
                /\ req[r].method \notin {"OPTIONS", "POST"}
                     => ResponseOf(r).status = 405 /\ calls[r] = <<>>
                /\ req[r].method = "POST" => ResponseOf(r).status \in {200, 400, 500}

\* A response, once sent, is the last thing the invocation does: no step
\* of an invocation adds a second response or changes the first.
C17_NoSecondResponse ==
    [][\A r \in Reqs : sent[r] # <<>> => (sent'[r] = sent[r] \/ sent'[r] = <<>>)]_vars

\* With the server key unset, an OPTIONS request was answered 200.
C17_Witness ==
    \E r \in Reqs :
        /\ Finished(r)
        /\ ~Truthy(geminiApiKey)
        /\ req[r].method = "OPTIONS"
        /\ sent[r] = <<[status |-> 200, kind |-> "end", text |-> <<>>, json |-> NoJson]>>

\* A POST that awaited its provider was answered once, after the reply.
C17_WitnessAfterAwait ==
    \E r \in Reqs :
        /\ Finished(r) /\ IsPost(r)
        /\ calls[r] # <<>> /\ reply[r].kind # "none"
        /\ Len(sent[r]) = 1

-----------------------------------------------------------------------------
(* C16 *)

\* Everything the model keeps for the invocation in slot q.
Slot(q) == <<pc[q], req[q], calls[q], reply[q], raised[q], sent[q]>>

\* The response the handler gives to the request in slot r when it is fed
\* that request and that reply and nothing else.
ResponseAlone(r, style) ==
    LET e == HandlerEntry(rev, geminiApiKey, req[r].method, req[r].body)
    IN  IF e.kind = "respond" THEN e.resp
        ELSE IF e.kind = "throw" THEN CatchHandler(rev, e.message)
        ELSE LET out == Outcome(rev, e.call, reply[r], style)
             IN  IF out.thrown THEN CatchHandler(rev, out.message)
                 ELSE SuccessResponse(e.call, out.value)

\* The call and the response of slot r are those of its own request and
\* reply; a DALL-E call carries the key of its own request, a Gemini call
\* the server's.
OwnCallAndResponse(r) ==
    /\ calls[r] # <<>>
         => /\ calls[r] = <<HandlerEntry(rev, geminiApiKey, req[r].method, req[r].body).call>>
            /\ CallOf(r).provider = "dalle" => CallOf(r).key = PayloadOf(r).openaiApiKey
            /\ CallOf(r).provider = "gemini" => CallOf(r).key = geminiApiKey
    /\ Finished(r) => \E style \in SyntaxErrorStyles : sent[r] = <<ResponseAlone(r, style)>>

\* A step of one invocation leaves every other slot and the module-level
\* state as they were.
TouchesOneSlot ==
    /\ rev' = rev /\ geminiApiKey' = geminiApiKey
    /\ \E r \in Reqs : \A q \in Reqs \ {r} : Slot(q)' = Slot(q)

\* C16: under any interleaving of in-flight requests, the response of each
\* request is the one its own body and its own provider reply give, every
\* call carries the key of its own request, and no step of an invocation
\* writes module-level state or the state of another invocation.
C16_Independent ==
    /\ [](\A r \in Reqs : OwnCallAndResponse(r))
    /\ [][TouchesOneSlot]_vars

\* Two callers with different OpenAI keys were in flight together; the
\* second was answered while the first was still suspended, each call
\* holding its own key.
C16_Witness ==
    \E r, q \in Reqs :
        /\ r # q
        /\ pc[r] = "awaitDalle" /\ CallOf(r).key = "sk-caller"
        /\ Finished(q) /\ calls[q] # <<>> /\ CallOf(q).key = "sk-other"
        /\ ResponseOf(q).status = 200

====
